---- MODULE Spec2Model ----
(***************************************************************************)
(* Model of the map-reduce metadata aggregation of                         *)
(* DocumentAnalyzerAgent._process_batches_to_metadata                      *)
(* (src/document_analyzer/ai/document_analyze.py).                         *)
(*                                                                         *)
(* Text batches are sequences of characters.  Model responses are          *)
(* sequences of lexical JSON tokens ("{", "}", "[", "]", ",", a key with   *)
(* its colon, a string scalar, or a bare word that is not JSON).           *)
(* A JSON value is carried as the token sequence of its text; an integer   *)
(* n stored in the metadata is carried as the one-token text of n.         *)
(***************************************************************************)
EXTENDS Integers, Sequences, FiniteSets, TLC

VARIABLES
    batches,              \* argument: the ordered input batches
    prompt_template,      \* argument: the template, as text pieces
    llm_token_limit,      \* self.llm_token_limit
    tokenizer,            \* what self.llm offers as get_num_tokens
    pc,                   \* position in _process_batches_to_metadata
    bi,                   \* index of the running for-loop
    current,              \* the packing accumulator
    joined_batches,       \* the chunks
    total_input_tokens,
    total_output_tokens,
    batch_responses,
    batch_jsons,
    keys,
    metadata,
    conversation,         \* self.conversation, the interaction log
    calls,                \* the invocations the generator has received
    error,                \* the exception that left the method, or "none"
    result,               \* the returned tuple, once returned
    counted_text,         \* count_tokens: the argument text
    token_counts,         \* count_tokens: what the calls so far returned
    store_files,          \* get_prompt: the blob names under the prompt's prefix
    version,              \* get_prompt: the argument, <<>> for None or <<n>>
    store_pc,             \* get_prompt: position in the method
    versions,             \* get_prompt: the (v, f) pairs found
    prompt_file,          \* get_prompt: the blob chosen
    local_files,          \* get_prompt: the temporary files on the local disk
    prompt_result,        \* get_prompt: the text returned or the exception raised
    split_text,           \* batch_text: the argument text
    batch_size,           \* batch_text: the argument batch_size
    split_i,              \* batch_text: the i of the comprehension
    split_batches,        \* batch_text: the list built so far
    split_pc,             \* batch_text: position in the method
    arg_llm_token_limit,  \* __init__: the argument llm_token_limit, <<>> for None or <<n>>
    llm_model_name,       \* __init__: <<name>> when llm has a model_name, else <<>>
    configured_limit,     \* __init__: self.llm_token_limit, <<>> before it is set
    agent_calls,          \* the method calls made on the constructed agent
    llm_answers,          \* self.llm: what it may answer to an extraction prompt
    mix_files,            \* generate_metadata_files, mix mode: files
    file_i,               \* how many of files the loop of line 284 has handled
    local_paths,          \* local_paths
    combined_document,    \* the files whose text combined_document holds
    temp_files,           \* the local files that exist
    uploaded,             \* the blobs written to folder_out
    remove_i,             \* how many of local_paths the loop of line 315 has handled
    mix_pc,               \* position in generate_metadata_files
    mix_error             \* the exception generate_metadata_files raised

\* the variables of count_tokens called on its own
countVars == <<counted_text, token_counts>>

\* the variables of PromptStore.get_prompt
promptVars == <<store_files, version, store_pc, versions, prompt_file,
                local_files, prompt_result>>

\* the variables of batch_text
splitVars == <<split_text, batch_size, split_i, split_batches, split_pc>>

\* the variables of DocumentAnalyzerAgent.__init__
agentVars == <<arg_llm_token_limit, llm_model_name, configured_limit, agent_calls>>

\* the variables of self.llm
llmVars == <<llm_answers>>

\* the variables of generate_metadata_files in mix mode
mixVars == <<mix_files, file_i, local_paths, combined_document, temp_files,
             uploaded, remove_i, mix_pc, mix_error>>

\* the variables outside _process_batches_to_metadata
otherVars == <<countVars, promptVars, splitVars, agentVars, llmVars, mixVars>>

\* the variables of _process_batches_to_metadata
aggVars == <<batches, prompt_template, llm_token_limit, tokenizer, pc, bi,
          current, joined_batches, total_input_tokens, total_output_tokens,
          batch_responses, batch_jsons, keys, metadata, conversation, calls,
          error, result>>

vars == <<aggVars, otherVars>>

\* what count_tokens, get_prompt and batch_text each leave alone
notCount == <<aggVars, promptVars, splitVars, agentVars, llmVars, mixVars>>
notPrompt == <<aggVars, countVars, splitVars, agentVars, llmVars, mixVars>>
notSplit == <<aggVars, countVars, promptVars, agentVars, llmVars, mixVars>>
notAgent == <<aggVars, countVars, promptVars, splitVars, llmVars, mixVars>>
notMix == <<aggVars, countVars, promptVars, splitVars, agentVars, llmVars>>

----------------------------------------------------------------------------
(* Bounds *)

\* packing specification: number of batches, batch length
PackMaxBatches == 3
PackMaxLen == 2
\* aggregation specification: number of batches, batch length
AggMaxBatches == 2
AggMaxLen == 2
\* budgets tried, 1..MaxBudget
MaxBudget == 3

\* count_tokens on its own: text length, calls on the same text
CountMaxLen == 8
CountCalls == 2

\* get_prompt: blobs under the prompt's prefix
PromptMaxFiles == 3

\* batch_text: text length, batch sizes 1..SplitMaxSize
SplitMaxLen == 5
SplitMaxSize == 3

\* __init__: explicit limits 0..AgentMaxLimit, method calls afterwards
AgentMaxLimit == 5
AgentMaxCalls == 2

\* extraction prompts: number of batches, batch length
PromptMaxBatches == 3
PromptMaxLen == 2

PackChars == {"a", " "}
\* batches of two distinguishable letters, to tell their order
PackLetters == {"a", "b"}
AggChars == {"a"}

----------------------------------------------------------------------------
(* Strings *)

Min(a, b) == IF a <= b THEN a ELSE b

Max(a, b) == IF a >= b THEN a ELSE b

\* all sequences over S of length lo..hi
SeqsOf(S, lo, hi) == UNION {[1..n -> S] : n \in lo..hi}

\* s[:n]
Take(s, n) == SubSeq(s, 1, Min(Len(s), n))

Whitespace == {" "}

RECURSIVE LStrip(_)
LStrip(s) ==
    IF s # <<>> /\ Head(s) \in Whitespace THEN LStrip(Tail(s)) ELSE s

RECURSIVE RStrip(_)
RStrip(s) ==
    IF s # <<>> /\ s[Len(s)] \in Whitespace
    THEN RStrip(SubSeq(s, 1, Len(s) - 1))
    ELSE s

\* str.strip()
Strip(s) == RStrip(LStrip(s))

\* the text of a sequence of characters or of text pieces
RECURSIVE Str(_)
Str(s) == IF s = <<>> THEN "" ELSE Head(s) \o Str(Tail(s))

----------------------------------------------------------------------------
(* Packing: the loop of lines 136-145 *)

\* Fits with < for <=
FitsStrictly(cur, batch, limit) == Len(cur) + Len(batch) < limit

\* Fits looking at the accumulator alone
FitsCurrentOnly(cur, batch, limit) == Len(cur) <= limit

\* the test of line 139
Fits(cur, batch, limit) == Len(cur) + Len(batch) <= limit

\* one iteration of the for-loop over batches
PackBatch ==
    /\ pc = "packing"
    /\ bi <= Len(batches)
    /\ IF Fits(current, batches[bi], llm_token_limit)
       THEN /\ current' = current \o <<" ">> \o batches[bi]
            /\ UNCHANGED joined_batches
       ELSE /\ joined_batches' = Append(joined_batches, Strip(current))
            /\ current' = batches[bi]
    /\ bi' = bi + 1
    /\ UNCHANGED <<batches, prompt_template, llm_token_limit, tokenizer, pc,
                   total_input_tokens, total_output_tokens, batch_responses,
                   batch_jsons, keys, metadata, conversation, calls, error,
                   result>>
    /\ UNCHANGED otherVars

\* PackFinish without lines 144-145: the last accumulator is forgotten
PackFinishForgetsLast ==
    /\ pc = "packing"
    /\ bi > Len(batches)
    /\ total_input_tokens' = 0
    /\ total_output_tokens' = 0
    /\ pc' = "extracting"
    /\ bi' = 1
    /\ UNCHANGED <<batches, prompt_template, llm_token_limit, tokenizer,
                   current, joined_batches, batch_responses, batch_jsons, keys,
                   metadata, conversation, calls, error, result>>
    /\ UNCHANGED otherVars

\* PackFinish without the test of line 144: an empty accumulator is a chunk
PackFinishAlwaysAppends ==
    /\ pc = "packing"
    /\ bi > Len(batches)
    /\ joined_batches' = Append(joined_batches, Strip(current))
    /\ total_input_tokens' = 0
    /\ total_output_tokens' = 0
    /\ pc' = "extracting"
    /\ bi' = 1
    /\ UNCHANGED <<batches, prompt_template, llm_token_limit, tokenizer,
                   current, batch_responses, batch_jsons, keys, metadata,
                   conversation, calls, error, result>>
    /\ UNCHANGED otherVars

\* lines 144-147: the last accumulator, and the zeroed totals
PackFinish ==
    /\ pc = "packing"
    /\ bi > Len(batches)
    /\ joined_batches' = IF current # <<>>
                         THEN Append(joined_batches, Strip(current))
                         ELSE joined_batches
    /\ total_input_tokens' = 0
    /\ total_output_tokens' = 0
    /\ pc' = "extracting"
    /\ bi' = 1
    /\ UNCHANGED <<batches, prompt_template, llm_token_limit, tokenizer,
                   current, batch_responses, batch_jsons, keys, metadata,
                   conversation, calls, error, result>>
    /\ UNCHANGED otherVars

----------------------------------------------------------------------------
(* JSON: json.loads and the brace span of re.search(r"\{.*\}", ..., DOTALL) *)

Keys == {"title", "author", "total_input_tokens", "total_output_tokens"}

TokenFields == {"total_input_tokens", "total_output_tokens"}

\* the token of a key: the key with its colon
KeyToken(k) == k \o ":"

KeyTokens == {KeyToken(k) : k \in Keys}

KeyOf(t) == CHOOSE k \in Keys : KeyToken(k) = t

\* string scalars of the responses
Scalars == {"DocA", "DocB", "DocA; DocB"}

EmptyObj == [k \in {} |-> <<>>]

\* the text of the integer n, as a JSON value
Num(n) == <<ToString(n)>>

ParseFail == [ok |-> FALSE, next |-> 0]

ParseOk(n) == [ok |-> TRUE, next |-> n]

RECURSIVE ParseValue(_, _)
RECURSIVE ParseElements(_, _)
RECURSIVE ParseMembers(_, _)

\* a JSON value starting at token i of s; next is the token after it
ParseValue(s, i) ==
    IF i > Len(s) THEN ParseFail
    ELSE IF s[i] \in Scalars THEN ParseOk(i + 1)
    ELSE IF s[i] = "["
         THEN IF i + 1 <= Len(s) /\ s[i + 1] = "]"
              THEN ParseOk(i + 2)
              ELSE ParseElements(s, i + 1)
    ELSE IF s[i] = "{"
         THEN IF i + 1 <= Len(s) /\ s[i + 1] = "}"
              THEN ParseOk(i + 2)
              ELSE ParseMembers(s, i + 1)
    ELSE ParseFail

ParseElements(s, i) ==
    LET v == ParseValue(s, i) IN
    IF ~v.ok \/ v.next > Len(s) THEN ParseFail
    ELSE IF s[v.next] = "," THEN ParseElements(s, v.next + 1)
    ELSE IF s[v.next] = "]" THEN ParseOk(v.next + 1)
    ELSE ParseFail

ParseMembers(s, i) ==
    IF i > Len(s) \/ s[i] \notin KeyTokens THEN ParseFail
    ELSE LET v == ParseValue(s, i + 1) IN
         IF ~v.ok \/ v.next > Len(s) THEN ParseFail
         ELSE IF s[v.next] = "," THEN ParseMembers(s, v.next + 1)
         ELSE IF s[v.next] = "}" THEN ParseOk(v.next + 1)
         ELSE ParseFail

\* the members of the object text s, from token i on, in order
RECURSIVE MembersFrom(_, _)
MembersFrom(s, i) ==
    IF s[i] = "}" THEN <<>>
    ELSE LET v == ParseValue(s, i + 1)
             m == [key |-> KeyOf(s[i]), value |-> SubSeq(s, i + 1, v.next - 1)]
         IN <<m>> \o MembersFrom(s, IF s[v.next] = "," THEN v.next + 1 ELSE v.next)

\* the keys of the members in the order a dict keeps them
RECURSIVE KeyOrder(_)
KeyOrder(ms) ==
    IF ms = <<>> THEN <<>>
    ELSE LET init == KeyOrder(SubSeq(ms, 1, Len(ms) - 1))
             k == ms[Len(ms)].key
         IN IF \E j \in 1..Len(init) : init[j] = k THEN init ELSE Append(init, k)

\* a dict of the members: the last value of a repeated key stays
DictOf(ms) ==
    [kind |-> "obj",
     obj |-> [k \in {ms[j].key : j \in 1..Len(ms)} |->
                 ms[CHOOSE j \in 1..Len(ms) :
                      /\ ms[j].key = k
                      /\ \A h \in (j + 1)..Len(ms) : ms[h].key # k].value],
     order |-> KeyOrder(ms)]

\* a parsed value that is no dict: a list or a string
NonDict(kind) == [kind |-> kind, obj |-> EmptyObj, order |-> <<>>]

EmptyDict == [kind |-> "obj", obj |-> EmptyObj, order |-> <<>>]

\* json.loads(s): ok is FALSE where it raises JSONDecodeError
json_loads(s) ==
    LET v == ParseValue(s, 1) IN
    IF ~(v.ok /\ v.next = Len(s) + 1) THEN [ok |-> FALSE, value |-> NonDict("none")]
    ELSE IF s[1] = "{" THEN [ok |-> TRUE, value |-> DictOf(MembersFrom(s, 2))]
    ELSE IF s[1] = "[" THEN [ok |-> TRUE, value |-> NonDict("list")]
    ELSE [ok |-> TRUE, value |-> NonDict("str")]

\* re.search(r"\{.*\}", s, re.DOTALL): from the first "{" to the last "}"
\* BraceSpan with a lazy match: up to the first "}" after the first "{"
BraceSpanFirstClose(s) ==
    LET opens == {i \in 1..Len(s) : s[i] = "{"}
        first == CHOOSE i \in opens : \A j \in opens : i <= j
        closes == {i \in 1..Len(s) : s[i] = "}" /\ i > first}
        close == CHOOSE i \in closes : \A j \in closes : i <= j
    IN IF opens = {} \/ closes = {}
       THEN [found |-> FALSE, text |-> <<>>]
       ELSE [found |-> TRUE, text |-> SubSeq(s, first, close)]

BraceSpan(s) ==
    LET opens == {i \in 1..Len(s) : s[i] = "{"}
        first == CHOOSE i \in opens : \A j \in opens : i <= j
        closes == {i \in 1..Len(s) : s[i] = "}" /\ i > first}
        last == CHOOSE i \in closes : \A j \in closes : i >= j
    IN IF opens = {} \/ closes = {}
       THEN [found |-> FALSE, text |-> <<>>]
       ELSE [found |-> TRUE, text |-> SubSeq(s, first, last)]

----------------------------------------------------------------------------
(* The generator, the token counter and the prompts *)

files_ref == <<"doc.json">>

\* the template a caller passes, with the phrase line 186 rewrites
Templates ==
    {<<"Extract the metadata of the ", "following document", ".">>}

\* what the generator may answer to an extraction prompt
ExtractResponses ==
    {<<"{", "title:", "DocA", "}">>,
     <<"{", "author:", "DocB", ",", "title:", "DocB", "}">>,
     <<"noise", "{", "title:", "DocA", "}", "noise">>,
     <<"{", "noise", "}">>,
     <<"noise">>,
     <<"[", "{", "title:", "DocA", "}", "]">>}

\* extraction answers that carry a field with a reserved name
ReservedResponses ==
    {<<"{", "total_input_tokens:", "DocA", ",", "title:", "DocB", "}">>,
     <<"{", "title:", "DocA", ",", "total_output_tokens:", "DocB", "}">>}

\* what the generator may answer to the reduction prompt of a key
ReduceResponses(key) ==
    {<<"{", KeyToken(key), "DocA; DocB", "}">>,
     <<"noise", "{", KeyToken(key), "DocA", "}">>,
     <<"[", "{", KeyToken(key), "DocB", "}", "]">>,
     <<"{", "total_output_tokens:", "DocA", "}">>,
     <<"{", "noise", "}">>,
     <<"noise">>}

\* the tokenizers an llm may expose as get_num_tokens; "none": it has none
Tokenizers == {"none", "chars"}

\* count_tokens, lines 122-128
count_tokens(text) ==
    IF tokenizer # "none" THEN Len(text) ELSE Max(1, Len(text) \div 4)

\* prompt_template.replace("following document", ...) of line 186
RECURSIVE ReplacePhrase(_, _)
ReplacePhrase(template, i) ==
    IF template = <<>> THEN <<>>
    ELSE <<IF Head(template) = "following document"
           THEN "following text, which is the batch " \o ToString(i)
                \o " of a document"
           ELSE Head(template)>> \o ReplacePhrase(Tail(template), i)

\* lines 150-152
SinglePrompt(template, text, limit) ==
    Str(template) \o "\n\nDocument:\n" \o Str(Take(text, limit))

\* lines 185-189; i counts from 0 as enumerate does
BatchPrompt(template, i, batch, limit) ==
    Str(ReplacePhrase(template, i)) \o "\n\nText:\n" \o Str(Take(batch, limit))

\* the text of a list of values, as the f-string of line 221 renders it
RECURSIVE ValuesText(_)
ValuesText(values) ==
    IF values = <<>> THEN ""
    ELSE (IF Head(values) = <<>> THEN "''" ELSE Str(Head(values)))
         \o (IF Len(values) > 1 THEN ", " ELSE "")
         \o ValuesText(Tail(values))

\* line 221
ReducePrompt(key, values) ==
    "You are combining the results of a document analysis. The key to combine is '"
    \o key
    \o "'. Here are the values for this key from different batches: ["
    \o ValuesText(values)
    \o "]\nGenerate the final value for '"
    \o key
    \o "'.Return only a valid JSON object with only one field: the key. And the value must be in the same format as in the inputs: ie, if the inputs are lists, list, if the inputs are strings, string ..."

\* one invocation of the generator, as the generator sees it
Call(kind, index, key, values, prompt, response, input_tokens, output_tokens) ==
    [kind |-> kind, index |-> index, key |-> key, values |-> values,
     prompt |-> prompt, response |-> response,
     input_tokens |-> input_tokens, output_tokens |-> output_tokens]

\* the entry _log_interaction appends, lines 100-109
LogEntry(question, answer, files, input_tokens, output_tokens) ==
    [question |-> question, answer |-> answer, files |-> files,
     input_tokens |-> input_tokens, output_tokens |-> output_tokens]

----------------------------------------------------------------------------
(* The three places a response is parsed *)

\* lines 162-175: the single chunk; every failure ends as {}
ParseSingle(response) ==
    LET direct == json_loads(response)
        match == BraceSpan(response)
        inner == json_loads(match.text)
    IN IF direct.ok THEN direct.value
       ELSE IF match.found /\ inner.ok THEN inner.value
       ELSE EmptyDict

\* lines 204-213: a chunk among several; the parse of the span is unguarded
ParseBatch(resp) ==
    LET direct == json_loads(resp)
        match == BraceSpan(resp)
        inner == json_loads(match.text)
    IN IF direct.ok THEN [raised |-> FALSE, value |-> direct.value]
       ELSE IF match.found
            THEN IF inner.ok
                 THEN [raised |-> FALSE, value |-> inner.value]
                 ELSE [raised |-> TRUE, value |-> NonDict("none")]
       ELSE [raised |-> FALSE, value |-> EmptyDict]

\* json.loads(text)[key]: ok is FALSE where the expression raises
LoadsAt(text, key) ==
    LET loaded == json_loads(text) IN
    IF loaded.ok /\ loaded.value.kind = "obj" /\ key \in DOMAIN loaded.value.obj
    THEN [ok |-> TRUE, value |-> loaded.value.obj[key]]
    ELSE [ok |-> FALSE, value |-> <<>>]

\* the text of {}
EmptyObjText == <<"{", "}">>

\* ReduceValue without the brace-span fallback
ReduceValueNoSpan(response, key) ==
    LET direct == LoadsAt(response, key)
    IN IF direct.ok THEN direct.value ELSE EmptyObjText

\* lines 231-244: the value a reduction response gives a key
ReduceValue(response, key) ==
    LET direct == LoadsAt(response, key)
        match == BraceSpan(response)
        inner == LoadsAt(match.text, key)
    IN IF direct.ok THEN direct.value
       ELSE IF match.found /\ inner.ok THEN inner.value
       ELSE EmptyObjText

\* metadata[key] = value on a dict
SetKey(d, key, value) ==
    [kind |-> "obj",
     obj |-> [k \in DOMAIN d.obj \cup {key} |->
                 IF k = key THEN value ELSE d.obj[k]],
     order |-> IF key \in DOMAIN d.obj THEN d.order ELSE Append(d.order, key)]

\* AttachTotals that keeps a field the metadata already has
AttachTotalsKeepExisting(d, tin, tout) ==
    LET withInput == IF "total_input_tokens" \in DOMAIN d.obj THEN d
                     ELSE SetKey(d, "total_input_tokens", Num(tin))
    IN IF "total_output_tokens" \in DOMAIN withInput.obj THEN withInput
       ELSE SetKey(withInput, "total_output_tokens", Num(tout))

\* AttachTotals writing the input total into both fields
AttachTotalsInputOnly(d, tin, tout) ==
    SetKey(SetKey(d, "total_input_tokens", Num(tin)),
           "total_output_tokens", Num(tin))

\* lines 252-253
AttachTotals(d, tin, tout) ==
    SetKey(SetKey(d, "total_input_tokens", Num(tin)),
           "total_output_tokens", Num(tout))

NoResult ==
    [returned |-> FALSE, metadata |-> NonDict("none"),
     total_input_tokens |-> 0, total_output_tokens |-> 0]

Returned(d, tin, tout) ==
    [returned |-> TRUE, metadata |-> d,
     total_input_tokens |-> tin, total_output_tokens |-> tout]

----------------------------------------------------------------------------
(* The aggregation: lines 148-254 *)

\* lines 148-178 and 252-254: exactly one chunk
SingleChunk ==
    /\ pc = "extracting"
    /\ Len(joined_batches) = 1
    /\ \E response \in llm_answers :
         LET text == joined_batches[1]
             prompt == SinglePrompt(prompt_template, text, llm_token_limit)
             input_tokens == count_tokens(prompt)
             output_tokens == count_tokens(Str(response))
             tin == total_input_tokens + input_tokens
             tout == total_output_tokens + output_tokens
             parsed == ParseSingle(response)
         IN /\ calls' = Append(calls, Call("extract", 0, "", <<>>, prompt,
                                           response, input_tokens, output_tokens))
            /\ total_input_tokens' = tin
            /\ total_output_tokens' = tout
            /\ conversation' = Append(conversation,
                                      LogEntry(prompt, response, files_ref,
                                               input_tokens, output_tokens))
            /\ IF parsed.kind = "obj"
               THEN /\ metadata' = AttachTotals(parsed, tin, tout)
                    /\ result' = Returned(metadata', tin, tout)
                    /\ pc' = "done"
                    /\ UNCHANGED error
               ELSE \* item assignment on a list or a str, line 252
                    /\ metadata' = parsed
                    /\ error' = "TypeError"
                    /\ pc' = "raised"
                    /\ UNCHANGED result
    /\ UNCHANGED <<batches, prompt_template, llm_token_limit, tokenizer, bi,
                   current, joined_batches, batch_responses, batch_jsons, keys>>
    /\ UNCHANGED otherVars

\* ExtractBatch with = for the += of lines 198-199
ExtractBatchAssigns ==
    /\ pc = "extracting"
    /\ Len(joined_batches) # 1
    /\ bi <= Len(joined_batches)
    /\ \E response \in llm_answers :
         LET prompt == BatchPrompt(prompt_template, bi - 1, joined_batches[bi],
                                   llm_token_limit)
             input_tokens == count_tokens(prompt)
             output_tokens == count_tokens(Str(response))
         IN /\ calls' = Append(calls, Call("extract", bi - 1, "", <<>>, prompt,
                                           response, input_tokens, output_tokens))
            /\ total_input_tokens' = input_tokens
            /\ total_output_tokens' = output_tokens
            /\ batch_responses' = Append(batch_responses, response)
    /\ bi' = bi + 1
    /\ UNCHANGED <<batches, prompt_template, llm_token_limit, tokenizer, pc,
                   current, joined_batches, batch_jsons, keys, metadata,
                   conversation, error, result>>
    /\ UNCHANGED otherVars

\* lines 184-201: one iteration of the extraction loop
ExtractBatch ==
    /\ pc = "extracting"
    /\ Len(joined_batches) # 1
    /\ bi <= Len(joined_batches)
    /\ \E response \in llm_answers :
         LET prompt == BatchPrompt(prompt_template, bi - 1, joined_batches[bi],
                                   llm_token_limit)
             input_tokens == count_tokens(prompt)
             output_tokens == count_tokens(Str(response))
         IN /\ calls' = Append(calls, Call("extract", bi - 1, "", <<>>, prompt,
                                           response, input_tokens, output_tokens))
            /\ total_input_tokens' = total_input_tokens + input_tokens
            /\ total_output_tokens' = total_output_tokens + output_tokens
            /\ batch_responses' = Append(batch_responses, response)
    /\ bi' = bi + 1
    /\ UNCHANGED <<batches, prompt_template, llm_token_limit, tokenizer, pc,
                   current, joined_batches, batch_jsons, keys, metadata,
                   conversation, error, result>>
    /\ UNCHANGED otherVars

\* the responses parsed before the first one whose parse raises
RECURSIVE ParsedPrefix(_)
ParsedPrefix(resps) ==
    IF resps = <<>> \/ ParseBatch(Head(resps)).raised THEN <<>>
    ELSE <<ParseBatch(Head(resps)).value>> \o ParsedPrefix(Tail(resps))

\* lines 202-213: the loop over batch_responses
ParseBatches ==
    /\ pc = "extracting"
    /\ Len(joined_batches) # 1
    /\ bi > Len(joined_batches)
    /\ batch_jsons' = ParsedPrefix(batch_responses)
    /\ IF Len(batch_jsons') < Len(batch_responses)
       THEN /\ error' = "JSONDecodeError"
            /\ pc' = "raised"
       ELSE /\ pc' = "parsed"
            /\ UNCHANGED error
    /\ UNCHANGED <<batches, prompt_template, llm_token_limit, tokenizer, bi,
                   current, joined_batches, total_input_tokens,
                   total_output_tokens, batch_responses, keys, metadata,
                   conversation, calls, result>>
    /\ UNCHANGED otherVars

\* lines 214-216
NoValidResponses ==
    /\ pc = "parsed"
    /\ batch_jsons = <<>>
    /\ result' = Returned(AttachTotals(EmptyDict, total_input_tokens,
                                       total_output_tokens),
                          total_input_tokens, total_output_tokens)
    /\ pc' = "done"
    /\ UNCHANGED <<batches, prompt_template, llm_token_limit, tokenizer, bi,
                   current, joined_batches, total_input_tokens,
                   total_output_tokens, batch_responses, batch_jsons, keys,
                   metadata, conversation, calls, error>>
    /\ UNCHANGED otherVars

\* a sequence back to front
Reverse(s) == [i \in 1..Len(s) |-> s[Len(s) + 1 - i]]

\* FirstKeys with the keys back to front
FirstKeysReversed(jsons) == Reverse(jsons[1].order)

\* FirstKeys reading the last chunk instead of the first
FirstKeysOfLast(jsons) == jsons[Len(jsons)].order

\* line 217: the keys the reduction runs over
FirstKeys(jsons) == jsons[1].order

\* lines 217-218
StartReduce ==
    /\ pc = "parsed"
    /\ batch_jsons # <<>>
    /\ IF batch_jsons[1].kind = "obj"
       THEN /\ keys' = FirstKeys(batch_jsons)
            /\ metadata' = EmptyDict
            /\ bi' = 1
            /\ pc' = "reducing"
            /\ UNCHANGED error
       ELSE \* .keys() of a list or a str
            /\ error' = "AttributeError"
            /\ pc' = "raised"
            /\ UNCHANGED <<keys, metadata, bi>>
    /\ UNCHANGED <<batches, prompt_template, llm_token_limit, tokenizer,
                   current, joined_batches, total_input_tokens,
                   total_output_tokens, batch_responses, batch_jsons,
                   conversation, calls, result>>
    /\ UNCHANGED otherVars

\* ValuesOf with the chunks back to front
ValuesOfReversed(jsons, key) ==
    Reverse([i \in 1..Len(jsons) |->
                IF key \in DOMAIN jsons[i].obj THEN jsons[i].obj[key] ELSE <<>>])

\* line 220: bj.get(key, "") of every chunk
ValuesOf(jsons, key) ==
    [i \in 1..Len(jsons) |->
        IF key \in DOMAIN jsons[i].obj THEN jsons[i].obj[key] ELSE <<>>]

\* lines 219-251: one iteration of the reduction loop
ReduceField ==
    /\ pc = "reducing"
    /\ bi <= Len(keys)
    /\ IF \E i \in 1..Len(batch_jsons) : batch_jsons[i].kind # "obj"
       THEN \* .get of a list or a str, line 220
            /\ error' = "AttributeError"
            /\ pc' = "raised"
            /\ UNCHANGED <<bi, total_input_tokens, total_output_tokens,
                           metadata, conversation, calls>>
       ELSE \E response \in ReduceResponses(keys[bi]) :
              LET key == keys[bi]
                  values == ValuesOf(batch_jsons, key)
                  reduce_prompt == ReducePrompt(key, values)
                  reduce_input_tokens == count_tokens(reduce_prompt)
                  reduce_output_tokens == count_tokens(Str(response))
              IN /\ calls' = Append(calls,
                                    Call("reduce", bi - 1, key, values,
                                         reduce_prompt, response,
                                         reduce_input_tokens,
                                         reduce_output_tokens))
                 /\ total_input_tokens' = total_input_tokens + reduce_input_tokens
                 /\ total_output_tokens' = total_output_tokens + reduce_output_tokens
                 /\ metadata' = SetKey(metadata, key, ReduceValue(response, key))
                 /\ conversation' = Append(conversation,
                                           LogEntry(reduce_prompt, response,
                                                    files_ref,
                                                    reduce_input_tokens,
                                                    reduce_output_tokens))
                 /\ bi' = bi + 1
                 /\ UNCHANGED <<pc, error>>
    /\ UNCHANGED <<batches, prompt_template, llm_token_limit, tokenizer,
                   current, joined_batches, batch_responses, batch_jsons, keys,
                   result>>
    /\ UNCHANGED otherVars

\* lines 252-254 after the reduction
Finish ==
    /\ pc = "reducing"
    /\ bi > Len(keys)
    /\ metadata' = AttachTotals(metadata, total_input_tokens, total_output_tokens)
    /\ result' = Returned(metadata', total_input_tokens, total_output_tokens)
    /\ pc' = "done"
    /\ UNCHANGED <<batches, prompt_template, llm_token_limit, tokenizer, bi,
                   current, joined_batches, total_input_tokens,
                   total_output_tokens, batch_responses, batch_jsons, keys,
                   conversation, calls, error>>
    /\ UNCHANGED otherVars

\* a call of the generator is the next thing the method does: lines 154-157,
\* 191-194 or 224-227 (line 220 has not raised)
CallPending ==
    \/ pc = "extracting" /\ Len(joined_batches) = 1
    \/ pc = "extracting" /\ Len(joined_batches) # 1 /\ bi <= Len(joined_batches)
    \/ /\ pc = "reducing" /\ bi <= Len(keys)
       /\ \A i \in 1..Len(batch_jsons) : batch_jsons[i].kind = "obj"

\* GeneratorFails that goes on after the failure
GeneratorFailsSwallowed ==
    /\ CallPending
    /\ error = "none"
    /\ error' = "GeneratorError"
    /\ UNCHANGED <<batches, prompt_template, llm_token_limit, tokenizer, pc, bi,
                   current, joined_batches, total_input_tokens,
                   total_output_tokens, batch_responses, batch_jsons, keys,
                   metadata, conversation, calls, result>>
    /\ UNCHANGED otherVars

\* the generator raises instead of answering: no statement of the method
\* catches it, so the totals, the log and the metadata stay as they are
GeneratorFails ==
    /\ CallPending
    /\ error = "none"
    /\ error' = "GeneratorError"
    /\ pc' = "raised"
    /\ UNCHANGED <<batches, prompt_template, llm_token_limit, tokenizer, bi,
                   current, joined_batches, total_input_tokens,
                   total_output_tokens, batch_responses, batch_jsons, keys,
                   metadata, conversation, calls, result>>
    /\ UNCHANGED otherVars

----------------------------------------------------------------------------
(* Specifications *)

\* the state on entry to _process_batches_to_metadata, lines 136-137
Entry(bs, limit, tok, template) ==
    /\ batches = bs
    /\ llm_token_limit = limit
    /\ tokenizer = tok
    /\ prompt_template = template
    /\ pc = "packing"
    /\ bi = 1
    /\ current = <<>>
    /\ joined_batches = <<>>
    /\ total_input_tokens = 0
    /\ total_output_tokens = 0
    /\ batch_responses = <<>>
    /\ batch_jsons = <<>>
    /\ keys = <<>>
    /\ metadata = NonDict("none")
    /\ conversation = <<>>
    /\ calls = <<>>
    /\ error = "none"
    /\ result = NoResult

\* count_tokens has not been called on its own
CountIdle == counted_text = <<>> /\ token_counts = <<>>

\* get_prompt has not been called
PromptIdle ==
    /\ store_files = {}
    /\ version = <<>>
    /\ store_pc = "idle"
    /\ versions = {}
    /\ prompt_file = <<>>
    /\ local_files = {}
    /\ prompt_result = [kind |-> "none", text |-> <<>>]

\* batch_text has not been called
SplitIdle ==
    /\ split_text = <<>>
    /\ batch_size = 1
    /\ split_i = 0
    /\ split_batches = <<>>
    /\ split_pc = "idle"

\* DocumentAnalyzerAgent.__init__ has not been called
AgentIdle ==
    /\ arg_llm_token_limit = <<>>
    /\ llm_model_name = <<>>
    /\ configured_limit = <<>>
    /\ agent_calls = 0

\* the generator may give any of the extraction answers
AnyAnswer ==
    llm_answers = ExtractResponses

\* generate_metadata_files in mix mode has not been called
MixIdle ==
    /\ mix_files = <<>>
    /\ file_i = 0
    /\ local_paths = <<>>
    /\ combined_document = <<>>
    /\ temp_files = {}
    /\ uploaded = {}
    /\ remove_i = 0
    /\ mix_pc = "idle"
    /\ mix_error = "none"

\* nothing but _process_batches_to_metadata runs
OthersIdle == CountIdle /\ PromptIdle /\ SplitIdle /\ AgentIdle /\ AnyAnswer /\ MixIdle

\* the aggregation over a small set of inputs
Init ==
    /\ \E bs \in SeqsOf(SeqsOf(AggChars, 1, AggMaxLen), 0, AggMaxBatches),
          limit \in 1..MaxBudget, tok \in Tokenizers, template \in Templates :
           Entry(bs, limit, tok, template)
    /\ OthersIdle

Next ==
    \/ PackBatch
    \/ PackFinish
    \/ SingleChunk
    \/ ExtractBatch
    \/ ParseBatches
    \/ NoValidResponses
    \/ StartReduce
    \/ ReduceField
    \/ Finish
    \/ GeneratorFails

Spec == Init /\ [][Next]_vars

\* the packing loop alone, over a larger set of inputs
InitPack ==
    /\ \E chars \in {PackChars, PackLetters} :
       \E bs \in SeqsOf(SeqsOf(chars, 0, PackMaxLen), 0, PackMaxBatches),
          limit \in 1..MaxBudget :
           Entry(bs, limit, "none", CHOOSE t \in Templates : TRUE)
    /\ OthersIdle

NextPack ==
    \/ PackBatch
    \/ PackFinish

SpecPack == InitPack /\ [][NextPack]_vars

----------------------------------------------------------------------------
(* The reference notions the claims are stated with *)

\* the packing loop has ended
Packed == pc # "packing"

\* the method has ended, by a return or by an exception
Ended == pc \in {"done", "raised"}

\* the method has ended and every call of the generator was answered
Completed == Ended /\ error # "GeneratorError"

\* a response neither json.loads nor the brace span can parse
ParseFailure(r) ==
    /\ ~json_loads(r).ok
    /\ BraceSpan(r).found => ~json_loads(BraceSpan(r).text).ok

\* the two-tier parser of a JSON object: the response itself when it is an
\* object, otherwise the span from its first "{" to its last "}"
ObjectOf(r) ==
    LET direct == json_loads(r)
        inner == json_loads(BraceSpan(r).text)
    IN IF direct.ok /\ direct.value.kind = "obj"
       THEN [failed |-> FALSE, value |-> direct.value]
       ELSE IF BraceSpan(r).found /\ inner.ok /\ inner.value.kind = "obj"
            THEN [failed |-> FALSE, value |-> inner.value]
       ELSE [failed |-> TRUE, value |-> EmptyDict]

\* the PartialMetadata of a response: its object, or the empty one
PartialOf(r) == ObjectOf(r).value

IsExtract(c) == c.kind = "extract"

IsReduce(c) == c.kind = "reduce"

ExtractCalls == SelectSeq(calls, IsExtract)

ReduceCalls == SelectSeq(calls, IsReduce)

RECURSIVE SumInput(_)
SumInput(cs) ==
    IF cs = <<>> THEN 0 ELSE Head(cs).input_tokens + SumInput(Tail(cs))

RECURSIVE SumOutput(_)
SumOutput(cs) ==
    IF cs = <<>> THEN 0 ELSE Head(cs).output_tokens + SumOutput(Tail(cs))

\* the field names of the returned FinalMetadata
FinalFields == DOMAIN result.metadata.obj

----------------------------------------------------------------------------
(* The claims *)

\* C1: every chunk the packing loop produces has length <= budget, unless it
\* is one single batch that is itself longer than the budget.
C1_BatchingBound ==
    \A i \in 1..Len(joined_batches) :
        \/ Len(joined_batches[i]) <= llm_token_limit
        \/ \E j \in 1..Len(batches) :
             /\ Len(batches[j]) > llm_token_limit
             /\ joined_batches[i] = Strip(batches[j])

\* C2: every chunk is built from at least one batch and every batch is in
\* exactly one chunk, so there are never more chunks than batches, and one
\* input batch gives exactly one chunk.
C2_ChunksPartitionBatches ==
    Packed =>
        /\ Len(joined_batches) <= Len(batches)
        /\ Len(batches) = 1 => Len(joined_batches) = 1

\* C3: a chunk response that fails to parse is recorded as an empty
\* PartialMetadata and the aggregation goes on; a parse failure is never
\* raised, in the single-chunk and in the multi-chunk path.
C3_ParseFailureIsNeverRaised ==
    /\ error # "JSONDecodeError"
    /\ pc \in {"parsed", "reducing", "done"} /\ Len(joined_batches) # 1 =>
         \A i \in 1..Len(batch_responses) :
             ParseFailure(batch_responses[i]) => batch_jsons[i] = EmptyDict
    /\ pc = "done" /\ Len(joined_batches) = 1 /\ ParseFailure(calls[1].response) =>
         FinalFields = TokenFields

C5_EveryCallIsLogged ==
    /\ Len(conversation) = Len(calls)
    /\ \A i \in 1..Len(calls) :
         /\ conversation[i].question = calls[i].prompt
         /\ conversation[i].answer = calls[i].response
         /\ conversation[i].files = files_ref

\* C6: with exactly one chunk there is exactly one generator call, never a
\* reduction call, and FinalMetadata is that chunk's PartialMetadata with
\* the two token totals.
C6_SingleChunkPassThrough ==
    Completed /\ Len(joined_batches) = 1 =>
        /\ Len(calls) = 1
        /\ ReduceCalls = <<>>
        /\ result.returned
        /\ LET partial == PartialOf(calls[1].response) IN
           /\ FinalFields = DOMAIN partial.obj \cup TokenFields
           /\ \A k \in DOMAIN partial.obj \ TokenFields :
                result.metadata.obj[k] = partial.obj[k]

\* C7: with two or more chunks whose responses all parse, FinalMetadata has
\* exactly the first chunk's keys and the two token fields, and the reducer
\* is called exactly once per key of the first chunk.
C7_ReductionFieldCoverage ==
    (/\ Completed
     /\ Len(joined_batches) >= 2
     /\ Len(batch_responses) = Len(joined_batches)
     /\ \A i \in 1..Len(batch_responses) : ~ObjectOf(batch_responses[i]).failed)
    =>
        LET firstKeys == DOMAIN PartialOf(batch_responses[1]).obj IN
        /\ result.returned
        /\ FinalFields = firstKeys \cup TokenFields
        /\ Len(ReduceCalls) = Cardinality(firstKeys)
        /\ \A k \in firstKeys :
             Cardinality({i \in 1..Len(ReduceCalls) : ReduceCalls[i].key = k}) = 1

\* C8: the value of a reduced field is the value at the field's key in the
\* object parsed from the reducer's response, and {} when the response does
\* not parse or lacks the key; the aggregation then goes on with the next
\* field and raises nothing.
C8_ReductionFallback ==
    \A i \in 1..Len(ReduceCalls) :
        LET key == ReduceCalls[i].key
            parsed == ObjectOf(ReduceCalls[i].response)
            final == IF pc = "done" THEN result.metadata ELSE metadata
        IN /\ error \in {"none", "GeneratorError"}
           /\ error = "none" => pc \in {"reducing", "done"}
           /\ pc = "done" => Len(ReduceCalls) = Len(keys)
           /\ key \in DOMAIN final.obj
           /\ key \notin TokenFields =>
                final.obj[key] =
                    IF ~parsed.failed /\ key \in DOMAIN parsed.value.obj
                    THEN parsed.value.obj[key]
                    ELSE <<"{", "}">>

\* a finished reduction in which one field fell back to {} and a later field
\* took the value of its key
C8_Witness ==
    /\ pc = "done"
    /\ \E i, j \in 1..Len(ReduceCalls) :
         /\ i < j
         /\ ObjectOf(ReduceCalls[i].response).failed
         /\ result.metadata.obj[ReduceCalls[i].key] = <<"{", "}">>
         /\ result.metadata.obj[ReduceCalls[j].key] = <<"DocA; DocB">>

\* C9: on every return FinalMetadata holds total_input_tokens and
\* total_output_tokens, each the sum of the token counts of every generator
\* call of the aggregation, and they equal the two totals returned with it.
C9_TokenTotals ==
    result.returned =>
        /\ TokenFields \subseteq FinalFields
        /\ result.metadata.obj["total_input_tokens"] = Num(SumInput(calls))
        /\ result.metadata.obj["total_output_tokens"] = Num(SumOutput(calls))
        /\ result.total_input_tokens = SumInput(calls)
        /\ result.total_output_tokens = SumOutput(calls)

\* a return after extraction calls and reduction calls
C9_Witness ==
    /\ result.returned
    /\ Len(ExtractCalls) >= 2
    /\ Len(ReduceCalls) >= 2
    /\ SumInput(calls) # SumOutput(calls)

\* C10: every PartialMetadata is a mapping: a response that is valid JSON
\* but no object is never taken as PartialMetadata and never makes the
\* aggregation fail.
C10_PartialMetadataIsAMapping ==
    /\ \A i \in 1..Len(batch_jsons) : batch_jsons[i].kind = "obj"
    /\ metadata.kind \in {"none", "obj"}
    /\ error \notin {"TypeError", "AttributeError"}

\* the batches longer than the budget among the first n
Oversized(n) ==
    {j \in 1..Min(n, Len(batches)) : Len(batches[j]) > llm_token_limit}

\* C11, as claimed: a batch longer than the budget is a chunk as it is,
\* consisting of that batch alone, and packing raises no error.
C11_OversizedBatchIsAChunk ==
    /\ error = "none"
    /\ Packed => \A j \in Oversized(Len(batches)) :
                    \E i \in 1..Len(joined_batches) :
                        joined_batches[i] = batches[j]

\* C11, amended: a batch longer than the budget is alone in the accumulator
\* and becomes a chunk that is that batch with its leading and trailing
\* whitespace trimmed, neither split nor merged; packing raises no error.
C11_OversizedBatchIsATrimmedChunk ==
    /\ error = "none"
    /\ pc = "packing" /\ bi - 1 \in Oversized(Len(batches)) =>
         current = batches[bi - 1]
    /\ \A j \in Oversized(IF Packed THEN Len(batches) ELSE bi - 2) :
         \E i \in 1..Len(joined_batches) :
             joined_batches[i] = Strip(batches[j])

\* packing has ended with an oversized batch between two batches that fit
C11_Witness ==
    /\ Packed
    /\ Len(batches) = 3
    /\ Oversized(3) = {2}
    /\ batches[1] # <<>> /\ batches[3] # <<>>
    /\ joined_batches = <<Strip(batches[1]), Strip(batches[2]), Strip(batches[3])>>

\* the texts of a sequence, one after the other
RECURSIVE Flatten(_)
Flatten(texts) ==
    IF texts = <<>> THEN <<>> ELSE Head(texts) \o Flatten(Tail(texts))

NotSpace(c) == c \notin Whitespace

\* a text with its spaces removed
NoSpaces(text) == SelectSeq(text, NotSpace)

C13_EmptyInput ==
    /\ Packed => (Len(joined_batches) = 0 <=> Len(batches) = 0)
    /\ batches = <<>> => calls = <<>> /\ conversation = <<>> /\ ~(pc = "raised")
    /\ Ended /\ batches = <<>> =>
         /\ result.returned
         /\ FinalFields = TokenFields
         /\ result.metadata.obj["total_input_tokens"] = Num(0)
         /\ result.metadata.obj["total_output_tokens"] = Num(0)

\* the aggregation of an empty batch list has returned
C13_Witness ==
    /\ pc = "done" /\ batches = <<>> /\ joined_batches = <<>>
    /\ result.returned

\* every batch fits the budget
AllFit == \A j \in 1..Len(batches) : Len(batches[j]) <= llm_token_limit

\* every two adjacent batches are together longer than the budget
AdjacentOverflow ==
    \A j \in 1..(Len(batches) - 1) :
        Len(batches[j]) + Len(batches[j + 1]) > llm_token_limit

\* a batch that does not fit closes the accumulator as a (trimmed) chunk and
\* starts a new accumulator holding only that batch
ClosesOnOverflow ==
    pc = "packing" /\ bi <= Len(batches)
    /\ Len(current) + Len(batches[bi]) > llm_token_limit =>
        /\ joined_batches' = Append(joined_batches, Strip(current))
        /\ current' = batches[bi]

\* C14, as claimed: a batch that does not fit closes the accumulator and
\* starts a new one; batches that each fit the budget but never fit in pairs
\* give one chunk per batch, each chunk equal to its batch.
C14_OneChunkPerBatch ==
    /\ [][ClosesOnOverflow]_vars
    /\ [](Packed /\ AllFit /\ AdjacentOverflow =>
            joined_batches = batches)

\* C14, amended: a batch that does not fit closes the accumulator and starts
\* a new one; batches that each fit the budget but never fit in pairs give one
\* chunk per batch, each chunk equal to its batch trimmed of leading and
\* trailing whitespace.
C14_OneTrimmedChunkPerBatch ==
    /\ [][ClosesOnOverflow]_vars
    /\ [](Packed /\ AllFit /\ AdjacentOverflow =>
            /\ Len(joined_batches) = Len(batches)
            /\ \A j \in 1..Len(batches) :
                 joined_batches[j] = Strip(batches[j]))

\* three batches that fit alone and never in pairs, packed into three chunks
C14_Witness ==
    /\ Packed /\ AllFit /\ AdjacentOverflow
    /\ Len(batches) = 3 /\ Len(joined_batches) = 3
    /\ batches[2] # Strip(batches[2])

\* the length of batches i..k of bs joined by single spaces
RECURSIVE JoinedLen(_, _, _)
JoinedLen(bs, i, k) ==
    IF i > k THEN 0
    ELSE IF i = k THEN Len(bs[i])
    ELSE Len(bs[i]) + 1 + JoinedLen(bs, i + 1, k)

\* the least number of groups of consecutive batches, from batch i on, whose
\* space-joined length is <= limit (more than Len(bs) when there is none)
RECURSIVE MinGroups(_, _, _)
MinGroups(bs, i, limit) ==
    IF i > Len(bs) THEN 0
    ELSE LET ends == {k \in i..Len(bs) : JoinedLen(bs, i, k) <= limit}
             counts == {1 + MinGroups(bs, k + 1, limit) : k \in ends}
         IN  IF ends = {} THEN Len(bs) + 1
             ELSE CHOOSE c \in counts : \A d \in counts : c <= d

\* C15: when every batch fits the budget, the number of chunks is the least
\* number of groups of consecutive batches whose space-joined length is
\* <= budget.
C15_MinimumChunks ==
    Packed /\ AllFit =>
        Len(joined_batches) = MinGroups(batches, 1, llm_token_limit)

\* a step makes at most one generator call, and a call made is never undone
OneCallAtATime ==
    calls' # calls =>
        /\ Len(calls') = Len(calls) + 1
        /\ SubSeq(calls', 1, Len(calls)) = calls

\* the order of the calls made so far
CallOrder ==
    /\ \A i, j \in 1..Len(calls) :
         i < j => ~(IsReduce(calls[i]) /\ IsExtract(calls[j]))
    /\ Len(ExtractCalls) <= Len(joined_batches)
    /\ \A k \in 1..Len(ExtractCalls) :
         /\ ExtractCalls[k].index = k - 1
         /\ ExtractCalls[k].prompt =
              IF Len(joined_batches) = 1
              THEN SinglePrompt(prompt_template, joined_batches[1],
                                llm_token_limit)
              ELSE BatchPrompt(prompt_template, k - 1, joined_batches[k],
                               llm_token_limit)
    /\ ReduceCalls # <<>> =>
         /\ Len(ExtractCalls) = Len(joined_batches)
         /\ \A k \in 1..Len(ExtractCalls) :
              batch_responses[k] = ExtractCalls[k].response
         /\ batch_jsons # <<>> /\ batch_jsons[1].kind = "obj"
         /\ Len(ReduceCalls) <= Len(batch_jsons[1].order)
         /\ \A m \in 1..Len(ReduceCalls) :
              ReduceCalls[m].key = batch_jsons[1].order[m]

\* C16: generator calls are made one at a time in a fixed order: the
\* extraction calls in chunk order, then the reduction calls in the order of
\* the first chunk's keys, none of them before the last extraction call has
\* returned.
C16_CallOrder ==
    /\ [][OneCallAtATime]_vars
    /\ []CallOrder

\* two chunks were extracted and two fields reduced, in the first chunk's order
C16_Witness ==
    /\ pc = "done"
    /\ Len(ExtractCalls) = 2 /\ Len(ReduceCalls) = 2
    /\ ReduceCalls[1].key = "author" /\ ReduceCalls[2].key = "title"

\* every chunk of a multi-chunk input was extracted and none of the responses
\* parsed
AllChunksFailed ==
    /\ Len(joined_batches) >= 2
    /\ Len(ExtractCalls) = Len(joined_batches)
    /\ \A i \in 1..Len(ExtractCalls) : ObjectOf(ExtractCalls[i].response).failed

\* C17: a reduction call is made only if at least two chunks were extracted
\* and one of them gave a non-empty PartialMetadata; when every chunk of a
\* multi-chunk input fails to parse, no reduction call is made and the
\* aggregation returns a FinalMetadata holding only the two token totals.
C17_ReductionOnlyAfterAParse ==
    /\ ReduceCalls # <<>> =>
         /\ Len(ExtractCalls) >= 2
         /\ \E i \in 1..Len(ExtractCalls) :
              DOMAIN PartialOf(ExtractCalls[i].response).obj # {}
    /\ AllChunksFailed =>
         /\ ReduceCalls = <<>>
         /\ pc # "raised"
         /\ Ended => result.returned /\ FinalFields = TokenFields

\* what a step does to the running totals: a call adds its counts, a step
\* without a call leaves them alone
TotalsStep ==
    /\ total_input_tokens' >= total_input_tokens
    /\ total_output_tokens' >= total_output_tokens
    /\ IF calls' # calls
       THEN LET call == calls'[Len(calls')]
            IN /\ total_input_tokens' = total_input_tokens + call.input_tokens
               /\ total_output_tokens' = total_output_tokens + call.output_tokens
       ELSE /\ total_input_tokens' = total_input_tokens
            /\ total_output_tokens' = total_output_tokens

\* C18: the running totals are never negative and never decrease; every
\* generator call adds its token counts to them, and nothing else changes
\* them, so they are never reset during an aggregation.
C18_TokenMonotonicity ==
    /\ [](total_input_tokens >= 0 /\ total_output_tokens >= 0)
    /\ [][TotalsStep]_vars

\* extraction and reduction calls have been added to totals that were not zero
C18_Witness ==
    /\ Len(ExtractCalls) >= 2 /\ Len(ReduceCalls) >= 1
    /\ total_input_tokens > calls[Len(calls)].input_tokens
    /\ calls[Len(calls)].input_tokens > 0
    /\ total_output_tokens > calls[Len(calls)].output_tokens

\* C19: a failure of the generator at an extraction or a reduction call
\* reaches the caller as an error: the aggregation has ended without a
\* FinalMetadata and makes no further call, so the failed prompt is never
\* sent again.
C19_GeneratorFailurePropagates ==
    error = "GeneratorError" =>
        /\ pc = "raised"
        /\ ~result.returned
        /\ ~ENABLED Next

\* the generator failed at a reduction call, after the extraction calls and
\* one reduction call had succeeded
C19_Witness ==
    /\ error = "GeneratorError"
    /\ Len(ExtractCalls) = 2 /\ Len(ReduceCalls) = 1
    /\ Len(keys) = 2

\* the single-chunk site gives the response's object, {} on parse-failure
ParserAtSingleChunk ==
    Completed /\ Len(joined_batches) = 1 /\ calls # <<>> =>
        /\ result.returned
        /\ result.metadata =
             AttachTotals(PartialOf(calls[1].response),
                          result.total_input_tokens, result.total_output_tokens)

\* the multi-chunk site gives every response's object, {} on parse-failure
ParserAtMultiChunk ==
    /\ error # "JSONDecodeError"
    /\ Len(joined_batches) # 1 /\ pc \in {"parsed", "reducing", "done"} =>
         /\ Len(batch_jsons) = Len(batch_responses)
         /\ \A i \in 1..Len(batch_responses) :
              batch_jsons[i] = PartialOf(batch_responses[i])

\* the reduction site gives the value at the key of the response's object,
\* {} on parse-failure
ParserAtReduction ==
    \A i \in 1..Len(ReduceCalls) :
        LET key == ReduceCalls[i].key
            parsed == ObjectOf(ReduceCalls[i].response)
            final == IF pc = "done" THEN result.metadata ELSE metadata
        IN key \in DOMAIN final.obj /\ key \notin TokenFields =>
             final.obj[key] =
                 IF ~parsed.failed /\ key \in DOMAIN parsed.value.obj
                 THEN parsed.value.obj[key]
                 ELSE EmptyObjText

\* C20: the two-tier parser (the response itself when it is a JSON object,
\* otherwise its span from the first "{" to the last "}", parse-failure when
\* neither is valid JSON) is what the single-chunk extraction, the multi-chunk
\* extraction and the reduction each apply to a response.
C20_TwoTierParserAtEverySite ==
    /\ ParserAtSingleChunk
    /\ ParserAtMultiChunk
    /\ ParserAtReduction

----------------------------------------------------------------------------
(* count_tokens called on its own, lines 122-128 *)

CountChars == {"a", "b"}

\* one call of self.count_tokens(text)
CountTokens ==
    /\ Len(token_counts) < CountCalls
    /\ token_counts' = Append(token_counts, count_tokens(counted_text))
    /\ UNCHANGED <<notCount, counted_text>>

InitCount ==
    /\ \E tok \in Tokenizers :
         Entry(<<>>, 1, tok, CHOOSE t \in Templates : TRUE)
    /\ counted_text \in SeqsOf(CountChars, 0, CountMaxLen)
    /\ token_counts = <<>>
    /\ PromptIdle
    /\ SplitIdle
    /\ AgentIdle
    /\ MixIdle
    /\ AnyAnswer

NextCount == CountTokens

SpecCount == InitCount /\ [][NextCount]_vars

\* C21: count_tokens returns the tokenizer's count when the LLM has
\* get_num_tokens and len(text) // 4 otherwise, for every text; the count is
\* a non-negative integer and the same for the same text.
C21_CountTokens ==
    \A i \in 1..Len(token_counts) :
        /\ token_counts[i] =
             IF tokenizer # "none" THEN Len(counted_text)
             ELSE Len(counted_text) \div 4
        /\ token_counts[i] \in Nat
        /\ token_counts[i] = token_counts[1]

----------------------------------------------------------------------------
(* PromptStore.get_prompt, src/document_analyzer/ai/prompt_store.py 9-42 *)

\* blob names below prompts/<name>/, as characters
PromptNames ==
    { <<"v", "1", ".", "t", "x", "t">>,
      <<"v", "2", ".", "t", "x", "t">>,
      <<"v", "1", "0", ".", "t", "x", "t">>,
      <<"v", "0", "1", ".", "t", "x", "t">>,
      <<"v", "x", ".", "t", "x", "t">>,
      <<"v", ".", "t", "x", "t">>,
      <<"x", "1", ".", "t", "x", "t">>,
      <<"v", "2", ".", "m", "d">>,
      <<"o", "/", "v", "3", ".", "t", "x", "t">> }

\* the versions a caller asks for: None, or a number
RequestedVersions == {<<>>} \cup {<<n>> : n \in {0, 1, 2, 3, 10}}

\* the content of a blob
TextOf(f) == <<"text of">> \o f

\* os.path.basename
basename(f) ==
    LET slashes == {i \in 1..Len(f) : f[i] = "/"}
        last == CHOOSE i \in slashes : \A j \in slashes : i >= j
    IN IF slashes = {} THEN f ELSE SubSeq(f, last + 1, Len(f))

DigitVal(c) ==
    CASE c = "0" -> 0 [] c = "1" -> 1 [] c = "2" -> 2 [] c = "3" -> 3

\* int(s) of line 23 raises unless s is a non-empty run of digits
IntOk(s) == s # <<>> /\ \A i \in 1..Len(s) : s[i] \in {"0", "1", "2", "3"}

RECURSIVE IntOf(_)
IntOf(s) ==
    IF s = <<>> THEN 0
    ELSE 10 * IntOf(SubSeq(s, 1, Len(s) - 1)) + DigitVal(s[Len(s)])

\* base[1:-4]
VersionDigits(base) == SubSeq(base, 2, Len(base) - 4)

\* lines 21-26: the names that give a (v, f) pair
IsVersioned(f) ==
    LET base == basename(f) IN
    /\ Len(base) >= 1 /\ base[1] = "v"
    /\ Len(base) >= 4
    /\ SubSeq(base, Len(base) - 3, Len(base)) = <<".", "t", "x", "t">>
    /\ IntOk(VersionDigits(base))

\* lines 18-26
VersionPairs(files) ==
    {<<IntOf(VersionDigits(basename(f))), f>> : f \in {g \in files : IsVersioned(g)}}

CharCode(c) ==
    CASE c = "." -> 46 [] c = "/" -> 47 [] c = "0" -> 48 [] c = "1" -> 49
      [] c = "2" -> 50 [] c = "3" -> 51 [] c = "d" -> 100 [] c = "m" -> 109
      [] c = "o" -> 111 [] c = "t" -> 116 [] c = "v" -> 118 [] c = "x" -> 120

\* str < str
RECURSIVE StrLess(_, _)
StrLess(a, b) ==
    IF b = <<>> THEN FALSE
    ELSE IF a = <<>> THEN TRUE
    ELSE IF Head(a) = Head(b) THEN StrLess(Tail(a), Tail(b))
    ELSE CharCode(Head(a)) < CharCode(Head(b))

\* (v, f) <= (w, g)
PairLeq(p, q) == p[1] < q[1] \/ (p[1] = q[1] /\ (p[2] = q[2] \/ StrLess(p[2], q[2])))

\* the head of a sort with the pairs in rising order
FirstAscending(pairs) == CHOOSE p \in pairs : \A q \in pairs : PairLeq(p, q)

\* line 29: the head of versions.sort(reverse=True)
FirstSorted(pairs) == CHOOSE p \in pairs : \A q \in pairs : PairLeq(q, p)

\* version or versions[0][0], line 37
LocalPath ==
    IF version = <<>> \/ version = <<0>> THEN FirstSorted(versions)[1]
    ELSE version[1]

Raise(kind) == [kind |-> kind, text |-> <<>>]

\* lines 13-28
ListVersions ==
    /\ store_pc = "start"
    /\ IF store_files = {}
       THEN /\ prompt_result' = Raise("FileNotFoundError")
            /\ store_pc' = "raised"
            /\ UNCHANGED versions
       ELSE /\ versions' = VersionPairs(store_files)
            /\ IF versions' = {}
               THEN /\ prompt_result' = Raise("FileNotFoundError")
                    /\ store_pc' = "raised"
               ELSE /\ store_pc' = "select"
                    /\ UNCHANGED prompt_result
    /\ UNCHANGED <<notPrompt, store_files, version, prompt_file, local_files>>

\* lines 29-35
SelectVersion ==
    /\ store_pc = "select"
    /\ IF version = <<>>
       THEN /\ prompt_file' = FirstSorted(versions)[2]
            /\ store_pc' = "download"
            /\ UNCHANGED prompt_result
       ELSE LET wanted == {p \in versions : p[1] = version[1]} IN
            IF wanted = {}
            THEN /\ prompt_result' = Raise("FileNotFoundError")
                 /\ store_pc' = "raised"
                 /\ UNCHANGED prompt_file
            ELSE /\ prompt_file' = FirstSorted(wanted)[2]
                 /\ store_pc' = "download"
                 /\ UNCHANGED prompt_result
    /\ UNCHANGED <<notPrompt, store_files, version, versions, local_files>>

\* lines 37-40: the blob is written to the temporary file and read back
DownloadPrompt ==
    /\ store_pc = "download"
    /\ local_files' = local_files \cup {LocalPath}
    /\ store_pc' = "read"
    /\ UNCHANGED <<notPrompt, store_files, version, versions, prompt_file,
                   prompt_result>>

\* lines 41-42
ReturnPrompt ==
    /\ store_pc = "read"
    /\ local_files' = local_files \ {LocalPath}
    /\ prompt_result' = [kind |-> "returned", text |-> TextOf(prompt_file)]
    /\ store_pc' = "done"
    /\ UNCHANGED <<notPrompt, store_files, version, versions, prompt_file>>

InitPrompt ==
    /\ Entry(<<>>, 1, "none", CHOOSE t \in Templates : TRUE)
    /\ CountIdle
    /\ SplitIdle
    /\ AgentIdle
    /\ MixIdle
    /\ AnyAnswer
    /\ store_files \in {fs \in SUBSET PromptNames : Cardinality(fs) <= PromptMaxFiles}
    /\ version \in RequestedVersions
    /\ store_pc = "start"
    /\ versions = {}
    /\ prompt_file = <<>>
    /\ local_files = {}
    /\ prompt_result = [kind |-> "none", text |-> <<>>]

NextPrompt ==
    \/ ListVersions
    \/ SelectVersion
    \/ DownloadPrompt
    \/ ReturnPrompt

SpecPrompt == InitPrompt /\ [][NextPrompt]_vars

\* the blobs of the form v<N>.txt, and the N of one
VersionedFiles == {f \in store_files : IsVersioned(f)}

NumberOf(f) == IntOf(VersionDigits(basename(f)))

\* the folder is empty, holds no versioned file, or lacks the version asked for
NothingToFetch ==
    \/ store_files = {}
    \/ VersionedFiles = {}
    \/ version # <<>> /\ \A f \in VersionedFiles : NumberOf(f) # version[1]

\* C22: with version None get_prompt returns the text of the highest-numbered
\* v<N>.txt under the prompt's folder, other files being ignored; with a
\* version it returns that version's text; it raises FileNotFoundError when
\* the folder is empty, holds no versioned file or lacks the version; the
\* temporary local file is gone when it returns.
C22_GetPrompt ==
    /\ prompt_result.kind = "returned" =>
         /\ store_pc = "done"
         /\ local_files = {}
         /\ \E f \in VersionedFiles :
              /\ prompt_result.text = TextOf(f)
              /\ version = <<>> => \A g \in VersionedFiles : NumberOf(g) <= NumberOf(f)
              /\ version # <<>> => NumberOf(f) = version[1]
    /\ store_pc \in {"done", "raised"} =>
         /\ prompt_result.kind = (IF NothingToFetch THEN "FileNotFoundError"
                                  ELSE "returned")
         /\ store_pc = "raised" <=> NothingToFetch
    /\ store_pc = "raised" => local_files = {}

\* the latest of v2.txt and v10.txt was returned, vx.txt being ignored
C22_Witness ==
    /\ store_pc = "done" /\ version = <<>>
    /\ store_files = { <<"v", "2", ".", "t", "x", "t">>,
                       <<"v", "1", "0", ".", "t", "x", "t">>,
                       <<"v", "x", ".", "t", "x", "t">> }
    /\ prompt_result =
         [kind |-> "returned",
          text |-> TextOf(<<"v", "1", "0", ".", "t", "x", "t">>)]
    /\ local_files = {}

----------------------------------------------------------------------------
(* DocumentProcessor.batch_text, document_processor.py 48-52 (the same code *)
(* is DocumentAnalyzer.batch_text, document_analyzer.py 47-51)              *)

SplitChars == {"a", "b"}

\* SliceAt cut one character short
SliceAtShort(s, i, size) == SubSeq(s, i + 1, Min(i + size - 1, Len(s)))

\* text[i:i+batch_size]: a slice ends at the end of the text at the latest
SliceAt(s, i, size) == SubSeq(s, i + 1, Min(i + size, Len(s)))

\* one element of the comprehension: i in range(0, len(text), batch_size)
SliceBatch ==
    /\ split_pc = "slicing"
    /\ split_i < Len(split_text)
    /\ split_batches' = Append(split_batches,
                               SliceAt(split_text, split_i, batch_size))
    /\ split_i' = split_i + batch_size
    /\ UNCHANGED <<notSplit, split_text, batch_size, split_pc>>

\* the range is used up and the list is returned
ReturnBatches ==
    /\ split_pc = "slicing"
    /\ split_i >= Len(split_text)
    /\ split_pc' = "returned"
    /\ UNCHANGED <<notSplit, split_text, batch_size, split_i, split_batches>>

InitSplit ==
    /\ Entry(<<>>, 1, "none", CHOOSE t \in Templates : TRUE)
    /\ CountIdle
    /\ PromptIdle
    /\ AgentIdle
    /\ MixIdle
    /\ AnyAnswer
    /\ split_text \in SeqsOf(SplitChars, 0, SplitMaxLen)
    /\ batch_size \in 1..SplitMaxSize
    /\ split_i = 0
    /\ split_batches = <<>>
    /\ split_pc = "slicing"

NextSplit ==
    \/ SliceBatch
    \/ ReturnBatches

SpecSplit == InitSplit /\ [][NextSplit]_vars

\* C23: the batches batch_text returns, one after the other, are the text;
\* every batch has length <= batch_size and every batch but the last exactly
\* batch_size; no batch is empty, and the empty text gives the empty list.
C23_BatchTextRoundTrip ==
    /\ Flatten(split_batches) =
         SubSeq(split_text, 1, Min(split_i, Len(split_text)))
    /\ split_pc = "returned" =>
         /\ Flatten(split_batches) = split_text
         /\ \A j \in 1..Len(split_batches) :
              /\ Len(split_batches[j]) <= batch_size
              /\ split_batches[j] # <<>>
              /\ j < Len(split_batches) => Len(split_batches[j]) = batch_size
         /\ split_text = <<>> => split_batches = <<>>

\* a text of five characters returned as two batches of two and one of one
C23_Witness ==
    /\ split_pc = "returned"
    /\ split_text = <<"a", "b", "b", "a", "b">> /\ batch_size = 2
    /\ split_batches = <<<<"a", "b">>, <<"b", "a">>, <<"b">>>>

----------------------------------------------------------------------------
(* The claims, continued *)

\* chunk i's value for a field: the value in its PartialMetadata, or the
\* empty string
ChunkValue(i, key) ==
    LET partial == PartialOf(ExtractCalls[i].response)
    IN IF key \in DOMAIN partial.obj THEN partial.obj[key] ELSE <<>>

\* C24: the value list in the reduction prompt of a field has one entry per
\* chunk, in chunk order: chunk i's value for the field, or the empty string
\* when chunk i's PartialMetadata lacks it, a chunk that failed to parse
\* included.
C24_ReductionValues ==
    \A m \in 1..Len(ReduceCalls) :
        LET call == ReduceCalls[m]
            expected == [i \in 1..Len(joined_batches) |-> ChunkValue(i, call.key)]
        IN /\ Len(ExtractCalls) = Len(joined_batches)
           /\ call.values = expected
           /\ call.prompt = ReducePrompt(call.key, expected)

\* the field author was reduced over a first chunk that has it and a second
\* chunk that failed to parse
C24_Witness ==
    /\ Len(joined_batches) = 2
    /\ \E m \in 1..Len(ReduceCalls) :
         /\ ReduceCalls[m].key = "author"
         /\ ReduceCalls[m].values = <<<<"DocB">>, <<>>>>
    /\ ObjectOf(ExtractCalls[2].response).failed

\* sub occurs in the text s
Contains(s, sub) ==
    \E k \in 1..(Len(s) - Len(sub) + 1) : SubSeq(s, k, k + Len(sub) - 1) = sub

\* the text s begins with sub
StartsWith(s, sub) == Len(sub) <= Len(s) /\ SubSeq(s, 1, Len(sub)) = sub

\* the prompt names the chunk's index, counted as the code counts it
NamesIndex(call) == Contains(call.prompt, ToString(call.index))

\* the prompt names the number of chunks
NamesCount(call) == Contains(call.prompt, ToString(Len(joined_batches)))

\* C25: with more than one chunk every extraction prompt is the template
\* with its complete-document phrase rewritten to name the chunk's index and
\* the total chunk count; with exactly one chunk the template is unmodified.
C25_PromptRewriting ==
    \A k \in 1..Len(ExtractCalls) :
        IF Len(joined_batches) = 1
        THEN StartsWith(ExtractCalls[k].prompt, Str(prompt_template))
        ELSE /\ ~StartsWith(ExtractCalls[k].prompt, Str(prompt_template))
             /\ ~Contains(ExtractCalls[k].prompt, "following document")
             /\ NamesIndex(ExtractCalls[k])
             /\ NamesCount(ExtractCalls[k])

----------------------------------------------------------------------------
(* DocumentAnalyzerAgent.__init__, document_analyze.py 17-34, and          *)
(* get_llm_token_limit, config/llm_config.py 1-12                          *)

\* the literal of document_analyze.py line 33
FallbackLimit == 1000000

\* the default of LLM_TOKEN_LIMITS.get, llm_config.py line 12
TableDefault == 1000000

\* llm_config.py lines 1-6
LLM_TOKEN_LIMITS == [name \in {"gemini-2.0-flash-lite"} |-> 1000000]

\* llm_config.py lines 8-12
get_llm_token_limit(model_name) ==
    IF model_name \in DOMAIN LLM_TOKEN_LIMITS
    THEN LLM_TOKEN_LIMITS[model_name] ELSE TableDefault

\* the model names an llm may carry
ModelNames == {"gemini-2.0-flash-lite", "gpt-4", ""}

\* the limits a caller may pass: None, small numbers, the examples' 2000000
PassedLimits == {<<>>} \cup {<<n>> : n \in 0..AgentMaxLimit} \cup {<<2000000>>}

\* lines 26-33 testing the model name before the argument
LimitByModelFirst(passed, model_name) ==
    IF model_name # <<>> THEN get_llm_token_limit(model_name[1])
    ELSE IF passed # <<>> THEN passed[1]
    ELSE FallbackLimit

\* lines 26-33
LimitFor(passed, model_name) ==
    IF passed # <<>> THEN passed[1]
    ELSE IF model_name # <<>> THEN get_llm_token_limit(model_name[1])
    ELSE FallbackLimit

\* the constructor
Construct ==
    /\ configured_limit = <<>>
    /\ configured_limit' = <<LimitFor(arg_llm_token_limit, llm_model_name)>>
    /\ UNCHANGED <<notAgent, arg_llm_token_limit, llm_model_name, agent_calls>>

\* any method of the constructed agent: none assigns self.llm_token_limit
CallMethod ==
    /\ configured_limit # <<>>
    /\ agent_calls < AgentMaxCalls
    /\ agent_calls' = agent_calls + 1
    /\ UNCHANGED <<notAgent, arg_llm_token_limit, llm_model_name, configured_limit>>

InitAgent ==
    /\ Entry(<<>>, 1, "none", CHOOSE t \in Templates : TRUE)
    /\ CountIdle
    /\ PromptIdle
    /\ SplitIdle
    /\ MixIdle
    /\ AnyAnswer
    /\ arg_llm_token_limit \in PassedLimits
    /\ llm_model_name \in {<<>>} \cup {<<name>> : name \in ModelNames}
    /\ configured_limit = <<>>
    /\ agent_calls = 0

NextAgent ==
    \/ Construct
    \/ CallMethod

SpecAgent == InitAgent /\ [][NextAgent]_vars

\* C26: the budget is fixed at construction: a passed llm_token_limit that is
\* not None wins; otherwise an LLM with a model_name gets the table's limit,
\* 1000000 for a name the table lacks; otherwise 1000000; it never changes
\* afterwards.
C26_TokenBudgetPrecedence ==
    /\ [](configured_limit # <<>> =>
            configured_limit[1] =
                IF arg_llm_token_limit # <<>> THEN arg_llm_token_limit[1]
                ELSE IF llm_model_name = <<>> THEN 1000000
                ELSE IF llm_model_name[1] \in DOMAIN LLM_TOKEN_LIMITS
                     THEN LLM_TOKEN_LIMITS[llm_model_name[1]]
                ELSE 1000000)
    /\ [][configured_limit # <<>> => configured_limit' = configured_limit]_vars

\* an agent built with an explicit limit of 0 and an LLM of a known model,
\* after method calls
C26_Witness ==
    /\ arg_llm_token_limit = <<0>>
    /\ llm_model_name = <<"gemini-2.0-flash-lite">>
    /\ configured_limit = <<0>>
    /\ agent_calls = AgentMaxCalls

----------------------------------------------------------------------------
(* Packing and extraction over inputs of more batches: lines 136-201 *)

InitExtract ==
    /\ \E bs \in SeqsOf(SeqsOf(AggChars, 1, PromptMaxLen), 0, PromptMaxBatches),
          limit \in 1..MaxBudget :
           Entry(bs, limit, "none", CHOOSE t \in Templates : TRUE)
    /\ CountIdle
    /\ PromptIdle
    /\ SplitIdle
    /\ AgentIdle
    /\ MixIdle
    /\ llm_answers \in {{r} : r \in {<<"{", "title:", "DocA", "}">>, <<"noise">>}}

NextExtract ==
    \/ PackBatch
    \/ PackFinish
    \/ SingleChunk
    \/ ExtractBatch

SpecExtract == InitExtract /\ [][NextExtract]_vars

\* the text s ends with sub
EndsWith(s, sub) ==
    Len(sub) <= Len(s) /\ SubSeq(s, Len(s) - Len(sub) + 1, Len(s)) = sub

\* every chunk has been sent to the generator
AllExtracted == Packed /\ Len(ExtractCalls) = Len(joined_batches)

\* the marker an extraction prompt puts before the chunk text
ChunkMarker == IF Len(joined_batches) = 1 THEN "\n\nDocument:\n" ELSE "\n\nText:\n"

\* C27: when every batch has length <= budget, every character of every
\* batch is in the chunk text of an extraction prompt: cutting the chunk
\* text at the budget cuts nothing off.
C27_NoContentLoss ==
    AllFit /\ AllExtracted =>
        /\ NoSpaces(Flatten(joined_batches)) = NoSpaces(Flatten(batches))
        /\ \A k \in 1..Len(ExtractCalls) :
             EndsWith(ExtractCalls[k].prompt,
                      ChunkMarker \o Str(joined_batches[k]))

\* the number of generator calls of a whole aggregation
ExpectedCalls ==
    IF Len(joined_batches) = 0 THEN 0
    ELSE IF Len(joined_batches) = 1 THEN 1
    ELSE Len(joined_batches)
         + Cardinality(DOMAIN PartialOf(ExtractCalls[1].response).obj)

\* C28: an aggregation whose generator calls all return makes no call for
\* zero chunks, one for one chunk and N + K for N >= 2 chunks, K being the
\* number of keys of the first chunk's PartialMetadata, and ends with a
\* FinalMetadata whatever the responses are.
C28_CallCountAndTermination ==
    /\ error \in {"none", "GeneratorError"}
    /\ Len(ExtractCalls) >= 1 => Len(calls) <= ExpectedCalls
    /\ Completed =>
         /\ result.returned
         /\ Len(calls) = ExpectedCalls

----------------------------------------------------------------------------
(* The aggregation with a generator whose answers carry reserved fields *)

InitReserved ==
    /\ \E bs \in SeqsOf(SeqsOf(AggChars, 1, AggMaxLen), 0, AggMaxBatches),
          limit \in 1..MaxBudget, tok \in Tokenizers, template \in Templates :
           Entry(bs, limit, tok, template)
    /\ CountIdle
    /\ PromptIdle
    /\ SplitIdle
    /\ AgentIdle
    /\ MixIdle
    /\ llm_answers = ReservedResponses

SpecReserved == InitReserved /\ [][Next]_vars

\* the value the aggregation gave a field that is not reserved: the single
\* chunk's own value, or the value reduced for it
FieldValue(key) ==
    IF Len(joined_batches) = 1
    THEN PartialOf(ExtractCalls[1].response).obj[key]
    ELSE LET m == CHOOSE i \in 1..Len(ReduceCalls) : ReduceCalls[i].key = key
             parsed == ObjectOf(ReduceCalls[m].response)
         IN IF ~parsed.failed /\ key \in DOMAIN parsed.value.obj
            THEN parsed.value.obj[key] ELSE EmptyObjText

\* the model's own output has a field with a reserved name
ModelNamesReservedField ==
    /\ ExtractCalls # <<>>
    /\ DOMAIN PartialOf(ExtractCalls[1].response).obj \cap TokenFields # {}

\* C29: the reserved fields of FinalMetadata carry the accumulated totals
\* also when the model's output has a field total_input_tokens or
\* total_output_tokens, in the single chunk's object or as a reduced field;
\* every other field is left as extracted or reduced.
C29_ReservedFields ==
    result.returned /\ ModelNamesReservedField =>
        /\ result.metadata.obj["total_input_tokens"] = Num(SumInput(calls))
        /\ result.metadata.obj["total_output_tokens"] = Num(SumOutput(calls))
        /\ FinalFields =
             DOMAIN PartialOf(ExtractCalls[1].response).obj \cup TokenFields
        /\ \A key \in FinalFields \ TokenFields :
             result.metadata.obj[key] = FieldValue(key)

\* two chunks whose first names total_input_tokens: the field was reduced to
\* a value of the model's, and FinalMetadata carries the total instead
C29_Witness ==
    /\ result.returned /\ Len(joined_batches) = 2
    /\ "total_input_tokens" \in DOMAIN PartialOf(ExtractCalls[1].response).obj
    /\ \E m \in 1..Len(ReduceCalls) :
         /\ ReduceCalls[m].key = "total_input_tokens"
         /\ ReduceValue(ReduceCalls[m].response, "total_input_tokens") = <<"DocA; DocB">>
    /\ result.metadata.obj["total_input_tokens"] = Num(total_input_tokens)
    /\ result.metadata.obj["title"] = <<"DocA">>

----------------------------------------------------------------------------
(* generate_metadata_files in mix mode, lines 276-317, once both prompts   *)
(* have been fetched                                                        *)

MixMaxFiles == 3

\* blob names the bucket may hold under the folder, nested ones included
MixPaths ==
    { <<"d">>, <<"t">>,
      <<"m", "/", "d">>, <<"m", "/", "t">>,
      <<"o", "/", "d">>, <<"o", "/", "t">> }

\* list_blobs gives the names in rising order, each once
RECURSIVE SortedSeq(_)
SortedSeq(S) ==
    IF S = {} THEN <<>>
    ELSE LET least == CHOOSE f \in S : \A g \in S : f = g \/ StrLess(f, g)
         IN <<least>> \o SortedSeq(S \ {least})

Listings == {SortedSeq(S) : S \in {T \in SUBSET MixPaths : Cardinality(T) <= MixMaxFiles}}

\* _download_file, line 87: f"temp_{os.path.basename(gcs_path)}"
TempPath(f) == <<"temp_">> \o basename(f)

\* the local file _save_and_upload_metadata writes and removes
MixFilename == <<"mix.json">>

\* lines 284-304: one round of the loop over files
DownloadFile ==
    /\ mix_pc = "downloading"
    /\ file_i < Len(mix_files)
    /\ LET file == mix_files[file_i + 1]
           local_path == TempPath(file)
       IN /\ temp_files' = temp_files \cup {local_path}
          /\ local_paths' = Append(local_paths, local_path)
          /\ combined_document' = Append(combined_document, file)
    /\ file_i' = file_i + 1
    /\ UNCHANGED <<notMix, mix_files, uploaded, remove_i, mix_pc, mix_error>>

\* lines 310-313: the combined document goes through the aggregation, and
\* the metadata is written to mix.json, uploaded, and mix.json removed;
\* an exception of the aggregation leaves the method
ProcessCombined ==
    /\ mix_pc = "downloading"
    /\ file_i = Len(mix_files)
    /\ \E ok \in BOOLEAN :
         IF ok
         THEN /\ uploaded' = uploaded \cup {MixFilename}
              /\ temp_files' = (temp_files \cup {MixFilename}) \ {MixFilename}
              /\ mix_pc' = "removing"
              /\ UNCHANGED mix_error
         ELSE /\ mix_error' = "AggregationError"
              /\ mix_pc' = "raised"
              /\ UNCHANGED <<uploaded, temp_files>>
    /\ UNCHANGED <<notMix, mix_files, file_i, local_paths, combined_document, remove_i>>

\* lines 315-316: one round of the loop over local_paths; os.remove raises
\* FileNotFoundError for a path that is not there
RemoveLocal ==
    /\ mix_pc = "removing"
    /\ remove_i < Len(local_paths)
    /\ LET lp == local_paths[remove_i + 1]
       IN IF lp \in temp_files
          THEN /\ temp_files' = temp_files \ {lp}
               /\ remove_i' = remove_i + 1
               /\ UNCHANGED <<mix_pc, mix_error>>
          ELSE /\ mix_error' = "FileNotFoundError"
               /\ mix_pc' = "raised"
               /\ UNCHANGED <<temp_files, remove_i>>
    /\ UNCHANGED <<notMix, mix_files, file_i, local_paths, combined_document, uploaded>>

\* line 317
ReturnMix ==
    /\ mix_pc = "removing"
    /\ remove_i = Len(local_paths)
    /\ mix_pc' = "returned"
    /\ UNCHANGED <<notMix, mix_files, file_i, local_paths, combined_document,
                   temp_files, uploaded, remove_i, mix_error>>

InitMix ==
    /\ Entry(<<>>, 1, "none", CHOOSE t \in Templates : TRUE)
    /\ CountIdle
    /\ PromptIdle
    /\ SplitIdle
    /\ AgentIdle
    /\ AnyAnswer
    /\ mix_files \in Listings
    /\ file_i = 0
    /\ local_paths = <<>>
    /\ combined_document = <<>>
    /\ temp_files = {}
    /\ uploaded = {}
    /\ remove_i = 0
    /\ mix_pc = "downloading"
    /\ mix_error = "none"

NextMix ==
    \/ DownloadFile
    \/ ProcessCombined
    \/ RemoveLocal
    \/ ReturnMix

SpecMix == InitMix /\ [][NextMix]_vars

\* how many entries of local_paths name the path lp
TimesListed(lp) == Cardinality({k \in 1..Len(local_paths) : local_paths[k] = lp})

\* C30: in mix mode generate_metadata_files raises nothing of its own for
\* any list of file paths, two files of one base name in different folders
\* included; once the combined metadata is uploaded, each downloaded temp
\* file is removed exactly once, and at the return none is left.
C30_MixModeCleanup ==
    /\ mix_error \in {"none", "AggregationError"}
    /\ mix_pc \in {"removing", "returned"} =>
         /\ MixFilename \in uploaded
         /\ \A lp \in {local_paths[k] : k \in 1..Len(local_paths)} :
              TimesListed(lp) = 1
    /\ mix_pc = "returned" => temp_files = {}

====
